---------------------------- MODULE Spec2Model ----------------------------
(***************************************************************************)
(* Model of the review ingestion / analysis pipeline:                      *)
(*   src/data_ingester.py   DataIngester   (rating parser, normalizer,     *)
(*                                          JSON, CSV and text ingestion,  *)
(*                                          dispatch)                      *)
(*   src/review_analyzer.py ReviewAnalyzer (rating parser, sentiment,      *)
(*                                          topics, problems, suggestions, *)
(*                                          batch analyzer)                *)
(*   src/app.py             process_uploaded_file (ingest, then analyze)   *)
(*                                                                         *)
(* Python strings are sequences of characters; a character is a one-letter *)
(* TLA+ string, and the two star glyphs are written by their code points.  *)
(* Python values are tagged records [t, s, n]: None, str, int, a list, or  *)
(* an object whose __str__ raises.  Ratings are exact rationals num/den    *)
(* (Python computes them in binary floating point; the cases drawn here,   *)
(* small integers and one decimal digit, are computed exactly there too).  *)
(***************************************************************************)
EXTENDS Integers, Sequences, FiniteSets, TLC

VARIABLES
    pc,            \* position of the modelled call sequence
    rating_value,  \* argument of the two rating parsers
    di_rating,     \* outcome of DataIngester.extract_rating_from_text
    ra_rating,     \* outcome of ReviewAnalyzer.extract_rating
    raw_data,      \* argument raw_data of DataIngester.normalize_review
    index,         \* argument index of DataIngester.normalize_review
    normalized,    \* outcome of DataIngester.normalize_review
    uploaded_file, \* the uploaded file handed to DataIngester.ingest_file
    raw_reviews,   \* list returned by ingest_file / handed to analyze_batch
    analyzed_df,   \* rows of the DataFrame returned by analyze_batch
    scorer,        \* what TextBlob(...).sentiment.polarity does when asked
    scorer_calls,  \* number of times the scorer has been asked
    text_value,    \* argument text of analyze_sentiment and extract_problems
    sentiment,     \* outcome of ReviewAnalyzer.analyze_sentiment
    problems       \* outcome of ReviewAnalyzer.extract_problems

vars == <<pc, rating_value, di_rating, ra_rating, raw_data, index, normalized,
          uploaded_file, raw_reviews, analyzed_df, scorer, scorer_calls,
          text_value, sentiment, problems>>

-----------------------------------------------------------------------------
(* Bounds of the model *)

\* rating strings are concatenations of at most MaxLexemes lexemes
MaxLexemes == 4
\* a raw mapping handed to normalize_review carries at most MaxKeys keys
MaxKeys == 2
\* a JSON list, a CSV table and a batch hold at most MaxItems items
MaxItems == 2
\* a text file holds at most MaxChars characters
MaxChars == 3

-----------------------------------------------------------------------------
(* Characters and strings *)

FilledStar == "U+2605"
EmptyStar  == "U+2606"

Digits == {"0", "1", "2", "3", "4", "5", "6", "7", "8", "9"}

DigitVal == ("0" :> 0) @@ ("1" :> 1) @@ ("2" :> 2) @@ ("3" :> 3) @@ ("4" :> 4)
         @@ ("5" :> 5) @@ ("6" :> 6) @@ ("7" :> 7) @@ ("8" :> 8) @@ ("9" :> 9)

DigitChar == <<"0", "1", "2", "3", "4", "5", "6", "7", "8", "9">>

UpperToLower ==
       ("A" :> "a") @@ ("B" :> "b") @@ ("C" :> "c") @@ ("D" :> "d") @@ ("E" :> "e")
    @@ ("F" :> "f") @@ ("G" :> "g") @@ ("H" :> "h") @@ ("I" :> "i") @@ ("J" :> "j")
    @@ ("K" :> "k") @@ ("L" :> "l") @@ ("M" :> "m") @@ ("N" :> "n") @@ ("O" :> "o")
    @@ ("P" :> "p") @@ ("Q" :> "q") @@ ("R" :> "r") @@ ("S" :> "s") @@ ("T" :> "t")
    @@ ("U" :> "u") @@ ("V" :> "v") @@ ("W" :> "w") @@ ("X" :> "x") @@ ("Y" :> "y")
    @@ ("Z" :> "z")

\* str.lower()
Lower(s) == [k \in 1..Len(s) |->
                IF s[k] \in DOMAIN UpperToLower THEN UpperToLower[s[k]] ELSE s[k]]

\* str.count(c) for a one-character c
Count(s, c) == Cardinality({k \in 1..Len(s) : s[k] = c})

\* whether the literal lit occurs in s at position i
MatchLit(s, i, lit) ==
    /\ i >= 1
    /\ i + Len(lit) - 1 <= Len(s)
    /\ SubSeq(s, i, i + Len(lit) - 1) = lit

\* last index of the longest run of characters of set cs that starts at i
\* (i - 1 when s[i] is not in cs): the greedy match of \d+ or \s*
RunEnd(s, i, cs) ==
    CHOOSE j \in (i - 1)..Len(s) :
        /\ \A k \in i..j : s[k] \in cs
        /\ j = Len(s) \/ s[j + 1] \notin cs

RECURSIVE DigitsToInt(_)
\* int("...") of a string of decimal digits
DigitsToInt(ds) ==
    IF ds = <<>> THEN 0
    ELSE 10 * DigitsToInt(SubSeq(ds, 1, Len(ds) - 1)) + DigitVal[ds[Len(ds)]]

RECURSIVE Pow10(_)
Pow10(n) == IF n = 0 THEN 1 ELSE 10 * Pow10(n - 1)

RECURSIVE NatToStr(_)
NatToStr(n) ==
    IF n < 10 THEN <<DigitChar[n + 1]>>
    ELSE NatToStr(n \div 10) \o <<DigitChar[(n % 10) + 1]>>

\* str(n) of an int
IntToStr(n) == IF n < 0 THEN <<"-">> \o NatToStr(0 - n) ELSE NatToStr(n)

\* the characters \s matches and str.strip() removes
Whitespace == {" ", "\t", "\n", "\r"}

\* str.strip()
Strip(s) ==
    IF \A k \in 1..Len(s) : s[k] \in Whitespace THEN <<>>
    ELSE LET a == CHOOSE k \in 1..Len(s) :
                      s[k] \notin Whitespace /\ \A m \in 1..(k - 1) : s[m] \in Whitespace
             b == CHOOSE k \in 1..Len(s) :
                      s[k] \notin Whitespace /\ \A m \in (k + 1)..Len(s) : s[m] \in Whitespace
         IN  SubSeq(s, a, b)

-----------------------------------------------------------------------------
(* Python values *)
(* [t, s, n, m]: the type tag, the characters of a str (or the repr of a   *)
(* container), the number of an int, and the content of a container: the   *)
(* key -> value map of a dict, the item sequence of a list.                *)

PyNone     == [t |-> "none", s |-> <<>>, n |-> 0, m |-> <<>>]
PyStr(s)   == [t |-> "str",  s |-> s,    n |-> 0, m |-> <<>>]
PyInt(n)   == [t |-> "int",  s |-> <<>>, n |-> n, m |-> <<>>]
\* float('nan'), the missing cell of a DataFrame
PyNaN      == [t |-> "nan",  s |-> <<"n", "a", "n">>, n |-> 0, m |-> <<>>]
PyDict(m)  == [t |-> "dict", s |-> <<"{", "}">>, n |-> 0, m |-> m]
PyList(xs) == [t |-> "list", s |-> <<"[", "]">>, n |-> 0, m |-> xs]
\* an object whose __str__ raises
PyBad      == [t |-> "bad",  s |-> <<>>, n |-> 0, m |-> <<>>]

\* bool(v): the truth value Python gives `not v`
Truthy(v) ==
    CASE v.t = "none" -> FALSE
      [] v.t = "str"  -> v.s # <<>>
      [] v.t = "int"  -> v.n # 0
      [] v.t = "dict" -> DOMAIN v.m # {}
      [] v.t = "list" -> v.m # <<>>
      [] OTHER        -> TRUE

\* whether str(v) raises
StrRaises(v) == v.t = "bad"

\* str(v), for a v whose coercion does not raise
Str(v) ==
    CASE v.t = "none" -> <<"N", "o", "n", "e">>
      [] v.t = "str"  -> v.s
      [] v.t = "int"  -> IntToStr(v.n)
      [] OTHER        -> v.s

\* dict.get(key, default)
Get(d, key, default) == IF key \in DOMAIN d.m THEN d.m[key] ELSE default

\* str.endswith(suffix)
EndsWith(s, suffix) == MatchLit(s, Len(s) - Len(suffix) + 1, suffix)

-----------------------------------------------------------------------------
(* Outcomes of the rating parsers: a rational num/den, or an exception     *)
(* that escapes the call.                                                  *)

Rating(n, d)  == [kind |-> "value",  num |-> n, den |-> d]
RatingRaised  == [kind |-> "raised", num |-> 0, den |-> 1]
NotCalled     == [kind |-> "none",   num |-> 0, den |-> 1]

\* float("<digits>") or float("<digits>.<digits>") as num/den
DecimalToRat(ip, fp) == [num |-> DigitsToInt(ip \o fp), den |-> Pow10(Len(fp))]

-----------------------------------------------------------------------------
(* DataIngester.extract_rating_from_text                                   *)

\* re.search(r'\((\d+)\s*stars?\)', s) matches at position i
StarMatchAt(s, i) ==
    /\ s[i] = "("
    /\ LET e == RunEnd(s, i + 1, Digits)
           w == RunEnd(s, e + 1, Whitespace)
       IN  /\ e >= i + 1
           /\ MatchLit(s, w + 1, <<"s", "t", "a", "r">>)
           /\ \/ MatchLit(s, w + 5, <<")">>)
              \/ MatchLit(s, w + 5, <<"s", ")">>)

\* group(1) of the leftmost match of the pattern above, as an int
StarMatchGroup(s) ==
    LET i == CHOOSE k \in 1..Len(s) :
                 StarMatchAt(s, k) /\ \A m \in 1..(k - 1) : ~StarMatchAt(s, m)
    IN  DigitsToInt(SubSeq(s, i + 1, RunEnd(s, i + 1, Digits)))

\* re.search(r'(\d+(?:\.\d+)?)/?(\d+)?', s): the leftmost match starts at the
\* first digit; every quantifier is greedy and everything after \d+ is optional
NumMatch(s) ==
    LET i  == CHOOSE k \in 1..Len(s) :
                  s[k] \in Digits /\ \A m \in 1..(k - 1) : s[m] \notin Digits
        e1 == RunEnd(s, i, Digits)
        hasFrac == MatchLit(s, e1 + 1, <<".">>) /\ e1 + 2 <= Len(s)
                     /\ s[e1 + 2] \in Digits
        e2 == IF hasFrac THEN RunEnd(s, e1 + 2, Digits) ELSE e1
        hasDen == MatchLit(s, e2 + 1, <<"/">>) /\ e2 + 2 <= Len(s)
                     /\ s[e2 + 2] \in Digits
    IN  [ip  |-> SubSeq(s, i, e1),
         fp  |-> IF hasFrac THEN SubSeq(s, e1 + 2, e2) ELSE <<>>,
         g2  |-> IF hasDen THEN SubSeq(s, e2 + 2, RunEnd(s, e2 + 2, Digits))
                 ELSE <<>>]

extract_rating_from_text(rating_text) ==
    IF ~Truthy(rating_text) THEN Rating(3, 1)
    ELSE
    LET rating_str == Lower(Str(rating_text)) IN
    IF \E i \in 1..Len(rating_str) : StarMatchAt(rating_str, i)
    THEN Rating(StarMatchGroup(rating_str), 1)
    ELSE IF Count(rating_str, FilledStar) > 0
    THEN Rating(Count(rating_str, FilledStar), 1)
    ELSE IF Count(rating_str, "*") > 0
    THEN Rating(Count(rating_str, "*"), 1)
    ELSE IF \E i \in 1..Len(rating_str) : rating_str[i] \in Digits
    THEN LET m == NumMatch(rating_str)
             numerator == DecimalToRat(m.ip, m.fp)
         IN  IF m.g2 # <<>>
             THEN LET denominator == DigitsToInt(m.g2) IN
                  IF denominator = 0 THEN RatingRaised  \* ZeroDivisionError
                  ELSE Rating(numerator.num * 5, numerator.den * denominator)
             ELSE IF numerator.num <= 5 * numerator.den   \* min(numerator, 5)
                  THEN Rating(numerator.num, numerator.den)
                  ELSE Rating(5, 1)
    ELSE Rating(3, 1)

-----------------------------------------------------------------------------
(* ReviewAnalyzer.safe_string_conversion and ReviewAnalyzer.extract_rating *)

safe_string_conversion(value) ==
    CASE value.t = "none" -> <<>>
      [] value.t = "int"  -> IntToStr(value.n)
      [] value.t = "str"  -> value.s
      [] StrRaises(value) -> <<>>
      [] OTHER            -> Str(value)

\* re.search(r'\((\d+)', s) matches at position i
ParenMatchAt(s, i) == s[i] = "(" /\ i + 1 <= Len(s) /\ s[i + 1] \in Digits

ParenMatchGroup(s) ==
    LET i == CHOOSE k \in 1..Len(s) :
                 ParenMatchAt(s, k) /\ \A m \in 1..(k - 1) : ~ParenMatchAt(s, m)
    IN  DigitsToInt(SubSeq(s, i + 1, RunEnd(s, i + 1, Digits)))

\* float(s): blanks stripped, an optional sign, then digits with an optional
\* point (digits on at least one side of it).  ok = FALSE is ValueError.  The
\* exponent, 'inf', 'nan' and '_' forms need characters ('e', 'i', 'n', '_')
\* that the rating strings drawn below never hold next to a digit.
FloatParse(s) ==
    LET t    == Strip(s)
        sgn  == IF t # <<>> /\ t[1] = "-" THEN -1 ELSE 1
        u    == IF t # <<>> /\ t[1] \in {"-", "+"} THEN Tail(t) ELSE t
        e1   == RunEnd(u, 1, Digits)
        dot  == MatchLit(u, e1 + 1, <<".">>)
        e2   == IF dot THEN RunEnd(u, e1 + 2, Digits) ELSE e1
        ip   == SubSeq(u, 1, e1)
        fp   == IF dot THEN SubSeq(u, e1 + 2, e2) ELSE <<>>
        good == u # <<>> /\ e2 = Len(u) /\ (ip # <<>> \/ fp # <<>>)
    IN  IF good
        THEN [ok |-> TRUE, num |-> sgn * DigitsToInt(ip \o fp), den |-> Pow10(Len(fp))]
        ELSE [ok |-> FALSE, num |-> 0, den |-> 1]

extract_rating(rating_value_) ==
    LET rating_str == safe_string_conversion(rating_value_) IN
    IF \E i \in 1..Len(rating_str) : ParenMatchAt(rating_str, i)
    THEN Rating(ParenMatchGroup(rating_str), 1)
    ELSE IF Count(rating_str, FilledStar) > 0
    THEN Rating(Count(rating_str, FilledStar), 1)
    ELSE LET f == FloatParse(rating_str) IN
         IF f.ok THEN Rating(f.num, f.den) ELSE Rating(3, 1)

-----------------------------------------------------------------------------
(* DataIngester.normalize_review                                           *)

\* the minimum width of the index in a generated id, f'R{index:05d}'
IdWidth == 5

RECURSIVE ZeroPad(_, _)
ZeroPad(s, w) == IF Len(s) >= w THEN s ELSE ZeroPad(<<"0">> \o s, w)

\* f'R{index:05d}': the sign counts in the width
GeneratedId(i) ==
    IF i < 0 THEN <<"R", "-">> \o ZeroPad(NatToStr(0 - i), IdWidth - 1)
    ELSE <<"R">> \o ZeroPad(NatToStr(i), IdWidth)

\* str(e) of the exception a failing coercion raises (the object chooses it)
ExcMessage == <<"b", "a", "d", " ", "s", "t", "r">>

ErrorPrefix ==
    <<"E", "r", "r", "o", "r", " ", "p", "r", "o", "c", "e", "s", "s", "i", "n", "g",
      ":", " ">>

\* the dict normalize_review returns
Record(review_id, date, rating_text, text, raw) ==
    PyDict(("review_id" :> PyStr(review_id)) @@ ("date" :> PyStr(date))
           @@ ("rating_text" :> PyStr(rating_text)) @@ ("text" :> PyStr(text))
           @@ ("raw_data" :> raw))

\* outcome of a call: the value returned, or an exception that escapes
Returned(v)   == [kind |-> "returned", rec |-> v]
Raised        == [kind |-> "raised",   rec |-> PyNone]
NotNormalized == [kind |-> "none",     rec |-> PyNone]

\* the try block with the alias keys consulted before the canonical ones
NormalizeTry_alias_first(raw, i) ==
    IF raw.t = "dict"
    THEN LET review_id == Get(raw, "id", Get(raw, "review_id", PyStr(GeneratedId(i))))
             date == Get(raw, "timestamp", Get(raw, "date", PyStr(<<>>)))
             rating_text == Get(raw, "score",
                                Get(raw, "stars", Get(raw, "rating", PyStr(<<>>))))
             text == Get(raw, "content",
                         Get(raw, "review", Get(raw, "text", PyStr(<<>>))))
         IN  IF \E v \in {review_id, date, rating_text, text} : StrRaises(v)
             THEN Raised
             ELSE Returned(Record(Str(review_id), Str(date), Str(rating_text),
                                  Str(text), raw))
    ELSE IF raw.t = "str"
    THEN Returned(Record(GeneratedId(i), <<>>, <<>>, raw.s, raw))
    ELSE IF StrRaises(raw) THEN Raised
    ELSE Returned(Record(GeneratedId(i), <<>>, <<>>, Str(raw), raw))

\* the body of the try block, lines 86-112
NormalizeTry(raw, i) ==
    IF raw.t = "dict"
    THEN LET review_id == Get(raw, "review_id", Get(raw, "id", PyStr(GeneratedId(i))))
             date == Get(raw, "date", Get(raw, "timestamp", PyStr(<<>>)))
             rating_text == Get(raw, "rating",
                                Get(raw, "stars", Get(raw, "score", PyStr(<<>>))))
             text == Get(raw, "text",
                         Get(raw, "review", Get(raw, "content", PyStr(<<>>))))
         IN  IF \E v \in {review_id, date, rating_text, text} : StrRaises(v)
             THEN Raised
             ELSE Returned(Record(Str(review_id), Str(date), Str(rating_text),
                                  Str(text), raw))
    ELSE IF raw.t = "str"
    THEN Returned(Record(GeneratedId(i), <<>>, <<>>, raw.s, raw))
    ELSE IF StrRaises(raw) THEN Raised
    ELSE Returned(Record(GeneratedId(i), <<>>, <<>>, Str(raw), raw))

\* the same without the except clause of lines 113-120
normalize_review_uncaught(raw, i) == NormalizeTry(raw, i)

normalize_review(raw, i) ==
    IF NormalizeTry(raw, i).kind = "raised"
    THEN Returned(Record(GeneratedId(i), <<>>, <<>>, ErrorPrefix \o ExcMessage, raw))
    ELSE NormalizeTry(raw, i)

-----------------------------------------------------------------------------
(* DataIngester: the uploaded file and its ingestion                       *)
(*                                                                         *)
(* An uploaded file is its name and its content as the readers see it:     *)
(*   utf8  whether the bytes decode as UTF-8,                              *)
(*   json  what json.loads makes of the decoded text (ok = FALSE when it   *)
(*         raises JSONDecodeError),                                        *)
(*   text  the decoded characters,                                         *)
(*   csv   what pd.read_csv does under each encoding of the ladder         *)
(*         ("ok", "UnicodeDecodeError" or "Exception"), the table read,    *)
(*         and lossy: what a UTF-8 read that replaces the undecodable      *)
(*         characters would make of the data ("ok" or "Exception").        *)

File(name, utf8, json, text, csv) ==
    [present |-> TRUE, name |-> name, utf8 |-> utf8, json |-> json,
     text |-> text, csv |-> csv]

JsonOf(data)  == [ok |-> TRUE,  data |-> data]
JsonMalformed == [ok |-> FALSE, data |-> PyNone]
NoCsv         == [reads |-> <<>>, rows |-> <<>>, lossy |-> "Exception"]

\* uploaded_file is None
NoFile == [present |-> FALSE, name |-> <<>>, utf8 |-> TRUE, json |-> JsonMalformed,
           text |-> <<>>, csv |-> NoCsv]

\* safe_json_load: None on any parse error
safe_json_load(f) == IF f.json.ok THEN f.json.data ELSE PyNone

RECURSIVE NormalizeLoop(_, _, _)
\* for i, item in enumerate(items): reviews.append(normalize_review(item, i))
\* (k is the 1-based position of the item, so i = k - 1)
NormalizeLoop(items, k, reviews) ==
    IF k > Len(items) THEN Returned(reviews)
    ELSE LET normalized_ == normalize_review(items[k], k - 1)
         IN  IF normalized_.kind = "raised" THEN Raised
             ELSE NormalizeLoop(items, k + 1, Append(reviews, normalized_.rec))

\* the body of the try block of ingest_json
IngestJsonTry(f) ==
    IF ~f.utf8 THEN Raised                         \* UnicodeDecodeError
    ELSE LET data == safe_json_load(f) IN
         IF ~Truthy(data) THEN Returned(<<>>)
         ELSE IF data.t = "list" THEN NormalizeLoop(data.m, 1, <<>>)
         ELSE IF data.t = "dict"
         THEN IF "reviews" \in DOMAIN data.m /\ data.m["reviews"].t = "list"
              THEN NormalizeLoop(data.m["reviews"].m, 1, <<>>)
              ELSE NormalizeLoop(<<data>>, 1, <<>>)
         ELSE Returned(<<>>)

ingest_json(f) ==
    IF IngestJsonTry(f).kind = "raised" THEN <<>> ELSE IngestJsonTry(f).rec

\* the encodings the CSV reader tries, in order
Encodings == <<"utf-8", "latin-1", "iso-8859-1", "cp1252", "windows-1252">>

\* the DataFrame pd.read_csv returns, and the encoding it was read with
Table(rows, encoding) == [t |-> "table", m |-> rows, encoding |-> encoding]

\* the final attempt: pd.read_csv(uploaded_file, encoding='utf-8',
\* errors='replace').  pd.read_csv has no parameter errors (the policy is
\* passed as encoding_errors), so the call raises TypeError before it reads
\* anything, whatever the data; the except clause returns None.
FinalAttempt(f) == PyNone

RECURSIVE ReadLoop(_, _)
\* read_csv_with_encoding: the first encoding whose read succeeds gives the
\* table; both except clauses continue with the next encoding.
ReadLoop(f, k) ==
    IF k > Len(Encodings) THEN FinalAttempt(f)
    ELSE IF f.csv.reads[k] = "ok" THEN Table(f.csv.rows, Encodings[k])
    ELSE ReadLoop(f, k + 1)

read_csv_with_encoding(f) == ReadLoop(f, 1)

\* review_dict[col] = '' if pd.isna(value) else str(value)
RowDict(row) ==
    PyDict([col \in DOMAIN row.m |->
               IF row.m[col].t \in {"nan", "none"} THEN PyStr(<<>>)
               ELSE PyStr(Str(row.m[col]))])

ingest_csv(f) ==
    LET df == read_csv_with_encoding(f) IN
    IF df.t = "none" THEN <<>>
    ELSE LET rows == [k \in 1..Len(df.m) |-> RowDict(df.m[k])]
             r    == NormalizeLoop(rows, 1, <<>>)
         IN  IF r.kind = "raised" THEN <<>> ELSE r.rec

RECURSIVE SplitLines(_, _, _)
\* content.split('\n'): cur is the line being read, from position k on
SplitLines(content, k, cur) ==
    IF k > Len(content) THEN <<cur>>
    ELSE IF content[k] = "\n" THEN <<cur>> \o SplitLines(content, k + 1, <<>>)
    ELSE SplitLines(content, k + 1, Append(cur, content[k]))

RECURSIVE TextLoop_emitted_index(_, _, _)
\* the loop numbering each record by the count of records before it
TextLoop_emitted_index(lines, k, reviews) ==
    IF k > Len(lines) THEN Returned(reviews)
    ELSE IF Strip(lines[k]) = <<>> THEN TextLoop_emitted_index(lines, k + 1, reviews)
    ELSE LET normalized_ == normalize_review(PyStr(Strip(lines[k])), Len(reviews))
         IN  IF normalized_.kind = "raised" THEN Raised
             ELSE TextLoop_emitted_index(lines, k + 1, Append(reviews, normalized_.rec))

RECURSIVE TextLoop(_, _, _)
\* for i, line in enumerate(lines): if line.strip(): normalize, append
TextLoop(lines, k, reviews) ==
    IF k > Len(lines) THEN Returned(reviews)
    ELSE IF Strip(lines[k]) = <<>> THEN TextLoop(lines, k + 1, reviews)
    ELSE LET normalized_ == normalize_review(PyStr(Strip(lines[k])), k - 1)
         IN  IF normalized_.kind = "raised" THEN Raised
             ELSE TextLoop(lines, k + 1, Append(reviews, normalized_.rec))

ingest_text(f) ==
    IF ~f.utf8 THEN <<>>                           \* UnicodeDecodeError, caught
    ELSE LET r == TextLoop(SplitLines(f.text, 1, <<>>), 1, <<>>)
         IN  IF r.kind = "raised" THEN <<>> ELSE r.rec

\* ingest_file reading a file of any other extension as plain text
ingest_file_text_fallback(f) ==
    IF ~f.present THEN <<>>
    ELSE LET filename == Lower(f.name) IN
         IF EndsWith(filename, <<".", "j", "s", "o", "n">>) THEN ingest_json(f)
         ELSE IF EndsWith(filename, <<".", "c", "s", "v">>) THEN ingest_csv(f)
         ELSE ingest_text(f)

\* lines 195-215; the readers return [] on every fault of their own, so the
\* outer except clause has nothing left to catch
ingest_file(f) ==
    IF ~f.present THEN <<>>
    ELSE LET filename == Lower(f.name) IN
         IF EndsWith(filename, <<".", "j", "s", "o", "n">>) THEN ingest_json(f)
         ELSE IF EndsWith(filename, <<".", "c", "s", "v">>) THEN ingest_csv(f)
         ELSE IF EndsWith(filename, <<".", "t", "x", "t">>) THEN ingest_text(f)
         ELSE <<>>

-----------------------------------------------------------------------------
(* ReviewAnalyzer: sentiment, topics, problems and suggestions of a text   *)

LowerToUpper ==
    [c \in {UpperToLower[u] : u \in DOMAIN UpperToLower} |->
        CHOOSE u \in DOMAIN UpperToLower : UpperToLower[u] = c]

Letters == DOMAIN UpperToLower \cup DOMAIN LowerToUpper

\* str.upper() of one character
UpperChar(c) == IF c \in DOMAIN LowerToUpper THEN LowerToUpper[c] ELSE c

\* str.capitalize(): the first character upper-cased, the rest lower-cased
Capitalize(s) == IF s = <<>> THEN <<>> ELSE <<UpperChar(s[1])>> \o Lower(Tail(s))

\* str.title(): a letter is upper-cased when no letter precedes it and
\* lower-cased otherwise
Title(s) ==
    [k \in 1..Len(s) |->
        IF k = 1 \/ s[k - 1] \notin Letters THEN UpperChar(s[k]) ELSE Lower(<<s[k]>>)[1]]

\* lit in s
Contains(s, lit) == \E i \in 1..(Len(s) - Len(lit) + 1) : MatchLit(s, i, lit)

\* the elements of a list
Elements(xs) == {xs[k] : k \in 1..Len(xs)}

\* xs[:n]
Take(xs, n) == SubSeq(xs, 1, IF Len(xs) < n THEN Len(xs) ELSE n)

\* what the sentiment scorer does when asked for the polarity of a text: it
\* raises, or it answers a polarity, counted here in hundredths (20 is 0.2)
ScorerRaises == [kind |-> "raises",   n |-> 0]
Polarity(n)  == [kind |-> "polarity", n |-> n]
Unscored     == Polarity(0)

\* the 0.2 of lines 67 and 69, in hundredths
NeutralBand == 20

\* outcome of analyze_sentiment: the label returned or the exception that
\* escapes, and whether the scorer was asked
Sentiment(label, asked) == [kind |-> "returned", label |-> label, asked |-> asked]
SentimentRaised(asked)  == [kind |-> "raised",   label |-> "",    asked |-> asked]
NotAnalyzed             == [kind |-> "none",     label |-> "",    asked |-> FALSE]
NotExtracted            == [kind |-> "none",     rec |-> <<>>]

\* the body of the try block of analyze_sentiment, lines 60-72
SentimentTry(text) ==
    LET clean_text == safe_string_conversion(text) IN
    IF Strip(clean_text) = <<>> THEN Sentiment("neutral", FALSE)
    ELSE IF scorer.kind = "raises" THEN SentimentRaised(TRUE)
    ELSE IF scorer.n > NeutralBand THEN Sentiment("positive", TRUE)
    ELSE IF scorer.n < 0 - NeutralBand THEN Sentiment("negative", TRUE)
    ELSE Sentiment("neutral", TRUE)

\* the same with the bounds of the neutral band counted as positive and
\* negative
analyze_sentiment_inclusive(text) ==
    LET clean_text == safe_string_conversion(text) IN
    IF Strip(clean_text) = <<>> THEN Sentiment("neutral", FALSE)
    ELSE IF scorer.kind = "raises" THEN Sentiment("neutral", TRUE)
    ELSE IF scorer.n >= NeutralBand THEN Sentiment("positive", TRUE)
    ELSE IF scorer.n <= 0 - NeutralBand THEN Sentiment("negative", TRUE)
    ELSE Sentiment("neutral", TRUE)

analyze_sentiment(text) ==
    IF SentimentTry(text).kind = "raised"
    THEN Sentiment("neutral", SentimentTry(text).asked)
    ELSE SentimentTry(text)

\* self.problem_keywords, in the order of lines 28-34
problem_keywords ==
    << <<"f", "r", "u", "s", "t", "r", "a", "t", "i", "n", "g">>,
       <<"s", "l", "o", "w">>,
       <<"l", "a", "t", "e">>,
       <<"m", "i", "s", "s", "i", "n", "g">>,
       <<"b", "r", "o", "k", "e", "n">>,
       <<"c", "o", "n", "f", "u", "s", "i", "n", "g">>,
       <<"d", "i", "f", "f", "i", "c", "u", "l", "t">>,
       <<"b", "a", "d">>,
       <<"p", "o", "o", "r">>,
       <<"t", "e", "r", "r", "i", "b", "l", "e">>,
       <<"a", "w", "f", "u", "l">>,
       <<"p", "r", "o", "b", "l", "e", "m">>,
       <<"i", "s", "s", "u", "e">>,
       <<"e", "r", "r", "o", "r">>,
       <<"b", "u", "g">>,
       <<"c", "r", "a", "s", "h">>,
       <<"n", "o", "t", " ", "w", "o", "r", "k", "i", "n", "g">>,
       <<"d", "o", "e", "s", "n", "'", "t", " ", "w", "o", "r", "k">>,
       <<"f", "a", "i", "l", "e", "d">>,
       <<"d", "i", "s", "a", "p", "p", "o", "i", "n", "t", "i", "n", "g">>,
       <<"h", "o", "r", "r", "i", "b", "l", "e">>,
       <<"u", "s", "e", "l", "e", "s", "s">>,
       <<"w", "a", "s", "t", "e">>,
       <<"n", "e", "v", "e", "r">>,
       <<"a", "g", "a", "i", "n">> >>

\* the literal heads of self.suggestion_patterns, lines 12-26; each is followed
\* by the group ([\w\s]+)
suggestion_patterns ==
    << <<"p", "l", "e", "a", "s", "e", " ">>,
       <<"t", "h", "e", "y", " ", "s", "h", "o", "u", "l", "d", " ">>,
       <<"y", "o", "u", " ", "s", "h", "o", "u", "l", "d", " ">>,
       <<"w", "e", " ", "s", "h", "o", "u", "l", "d", " ">>,
       <<"a", "d", "d", " ">>,
       <<"i", "m", "p", "l", "e", "m", "e", "n", "t", " ">>,
       <<"i", "m", "p", "r", "o", "v", "e", " ">>,
       <<"m", "a", "k", "e", " ">>,
       <<"f", "i", "x", " ">>,
       <<"i", " ", "s", "u", "g", "g", "e", "s", "t", " ">>,
       <<"i", "t", " ", "w", "o", "u", "l", "d", " ", "b", "e", " ", "g", "r", "e", "a", "t", " ", "i", "f", " ">>,
       <<"c", "a", "n", " ", "y", "o", "u", " ">>,
       <<"c", "o", "u", "l", "d", " ", "y", "o", "u", " ">> >>

\* self.topic_keywords (lines 36-42) and common_phrases (lines 138-145),
\* listed in the order sorted() gives their tags: the capitalized keyword,
\* the title-cased phrase
TopicVocabulary ==
    << [source |-> <<"a", "p", "p">>, phrase |-> FALSE],
       [source |-> <<"c", "h", "e", "c", "k", "o", "u", "t">>, phrase |-> FALSE],
       [source |-> <<"c", "h", "e", "c", "k", "o", "u", "t", " ", "p", "r", "o", "c", "e", "s", "s">>, phrase |-> TRUE],
       [source |-> <<"c", "u", "s", "t", "o", "m", "e", "r">>, phrase |-> FALSE],
       [source |-> <<"c", "u", "s", "t", "o", "m", "e", "r", " ", "s", "u", "p", "p", "o", "r", "t">>, phrase |-> TRUE],
       [source |-> <<"d", "e", "l", "i", "v", "e", "r", "y">>, phrase |-> FALSE],
       [source |-> <<"d", "e", "l", "i", "v", "e", "r", "y", " ", "t", "i", "m", "e">>, phrase |-> TRUE],
       [source |-> <<"d", "i", "s", "c", "o", "u", "n", "t">>, phrase |-> FALSE],
       [source |-> <<"d", "i", "s", "c", "o", "u", "n", "t", " ", "p", "r", "o", "g", "r", "a", "m">>, phrase |-> TRUE],
       [source |-> <<"d", "r", "i", "v", "e", "r">>, phrase |-> FALSE],
       [source |-> <<"e", "x", "p", "e", "r", "i", "e", "n", "c", "e">>, phrase |-> FALSE],
       [source |-> <<"f", "o", "o", "d">>, phrase |-> FALSE],
       [source |-> <<"f", "o", "o", "d", " ", "q", "u", "a", "l", "i", "t", "y">>, phrase |-> TRUE],
       [source |-> <<"i", "n", "t", "e", "r", "f", "a", "c", "e">>, phrase |-> FALSE],
       [source |-> <<"i", "t", "e", "m">>, phrase |-> FALSE],
       [source |-> <<"m", "o", "b", "i", "l", "e">>, phrase |-> FALSE],
       [source |-> <<"m", "o", "b", "i", "l", "e", " ", "a", "p", "p">>, phrase |-> TRUE],
       [source |-> <<"n", "a", "v", "i", "g", "a", "t", "i", "o", "n">>, phrase |-> FALSE],
       [source |-> <<"o", "r", "d", "e", "r">>, phrase |-> FALSE],
       [source |-> <<"o", "r", "d", "e", "r", " ", "a", "c", "c", "u", "r", "a", "c", "y">>, phrase |-> TRUE],
       [source |-> <<"p", "a", "c", "k", "a", "g", "e">>, phrase |-> FALSE],
       [source |-> <<"p", "a", "y", "m", "e", "n", "t">>, phrase |-> FALSE],
       [source |-> <<"p", "a", "y", "m", "e", "n", "t", " ", "p", "r", "o", "c", "e", "s", "s">>, phrase |-> TRUE],
       [source |-> <<"p", "r", "i", "c", "e">>, phrase |-> FALSE],
       [source |-> <<"p", "r", "o", "d", "u", "c", "t">>, phrase |-> FALSE],
       [source |-> <<"q", "u", "a", "l", "i", "t", "y">>, phrase |-> FALSE],
       [source |-> <<"r", "i", "d", "e", "r">>, phrase |-> FALSE],
       [source |-> <<"s", "e", "a", "r", "c", "h">>, phrase |-> FALSE],
       [source |-> <<"s", "e", "a", "r", "c", "h", " ", "f", "u", "n", "c", "t", "i", "o", "n", "a", "l", "i", "t", "y">>, phrase |-> TRUE],
       [source |-> <<"s", "e", "r", "v", "i", "c", "e">>, phrase |-> FALSE],
       [source |-> <<"s", "h", "i", "p", "p", "i", "n", "g">>, phrase |-> FALSE],
       [source |-> <<"s", "h", "i", "p", "p", "i", "n", "g", " ", "s", "p", "e", "e", "d">>, phrase |-> TRUE],
       [source |-> <<"s", "u", "p", "p", "o", "r", "t">>, phrase |-> FALSE],
       [source |-> <<"u", "s", "e", "r", " ", "i", "n", "t", "e", "r", "f", "a", "c", "e">>, phrase |-> TRUE],
       [source |-> <<"w", "e", "b", "s", "i", "t", "e">>, phrase |-> FALSE],
       [source |-> <<"w", "e", "b", "s", "i", "t", "e", " ", "d", "e", "s", "i", "g", "n">>, phrase |-> TRUE] >>

\* the characters [\w\s] matches
WordOrSpace == Letters \cup Digits \cup {"_"} \cup Whitespace

RECURSIVE FindSuggestions(_, _, _)
\* re.finditer(pattern, clean_text) from position i on: the capitalized
\* groups of the matches, those of more than three characters once trimmed.
\* A match is the head followed by the longest run of [\w\s] characters,
\* one at least; the search goes on after the match.
FindSuggestions(s, head, i) ==
    IF i > Len(s) THEN {}
    ELSE IF MatchLit(s, i, head) /\ i + Len(head) <= Len(s)
            /\ s[i + Len(head)] \in WordOrSpace
    THEN LET last == RunEnd(s, i + Len(head), WordOrSpace)
             suggestion == Strip(SubSeq(s, i + Len(head), last))
         IN  (IF Len(suggestion) > 3 THEN {Capitalize(suggestion)} ELSE {})
                 \cup FindSuggestions(s, head, last + 1)
    ELSE FindSuggestions(s, head, i + 1)

\* extract_suggestions, lines 77-94.  list(set(suggestions)) has the order
\* of set iteration, which nothing fixes: the result is kept as the set.
extract_suggestions(text) ==
    LET clean_text == Lower(safe_string_conversion(text)) IN
    IF Strip(clean_text) = <<>> THEN {}
    ELSE UNION {FindSuggestions(clean_text, suggestion_patterns[j], 1) :
                    j \in 1..Len(suggestion_patterns)}

RECURSIVE SplitSentences(_, _)
\* re.split(r'[.!?]', clean_text), from position k on: the piece up to the
\* next '.', '!' or '?', then the pieces after it; the piece that ends the
\* text when there is no such character
SplitSentences(clean_text, k) ==
    LET marks == {h \in k..Len(clean_text) : clean_text[h] \in {".", "!", "?"}} IN
    IF marks = {} THEN <<SubSeq(clean_text, k, Len(clean_text))>>
    ELSE LET next == CHOOSE h \in marks : \A g \in marks : h <= g
         IN  <<SubSeq(clean_text, k, next - 1)>> \o SplitSentences(clean_text, next + 1)

\* the 5 of problems[:5], line 119
MaxProblems == 5

RECURSIVE ProblemsLoop(_, _, _)
\* for sentence in sentences, lines 106-117: the trimmed sentence, when it
\* is not empty and holds a keyword, is capitalized and appended unless it
\* is listed already
ProblemsLoop(sentences, k, problems_) ==
    IF k > Len(sentences) THEN problems_
    ELSE LET sentence == Strip(sentences[k])
             clean_sentence == Capitalize(sentence)
         IN  IF sentence = <<>> THEN ProblemsLoop(sentences, k + 1, problems_)
             ELSE IF \E j \in 1..Len(problem_keywords) :
                         Contains(sentence, problem_keywords[j])
             THEN IF clean_sentence \in Elements(problems_)
                  THEN ProblemsLoop(sentences, k + 1, problems_)
                  ELSE ProblemsLoop(sentences, k + 1, Append(problems_, clean_sentence))
             ELSE ProblemsLoop(sentences, k + 1, problems_)

\* extract_problems without the cut of line 119
extract_problems_uncut(text) ==
    LET clean_text == Lower(safe_string_conversion(text)) IN
    IF Strip(clean_text) = <<>> THEN <<>>
    ELSE ProblemsLoop(SplitSentences(clean_text, 1), 1, <<>>)

\* extract_problems, lines 96-122; nothing in the try block raises
extract_problems(text) ==
    LET clean_text == Lower(safe_string_conversion(text)) IN
    IF Strip(clean_text) = <<>> THEN <<>>
    ELSE Take(ProblemsLoop(SplitSentences(clean_text, 1), 1, <<>>), MaxProblems)

\* extract_topics, lines 124-154: the tags of the keywords and phrases the
\* lower-cased text contains, sorted
extract_topics(text) ==
    LET clean_text == Lower(safe_string_conversion(text))
        present == SelectSeq(TopicVocabulary,
                             LAMBDA entry : Contains(clean_text, entry.source))
    IN  IF Strip(clean_text) = <<>> THEN <<>>
        ELSE [k \in 1..Len(present) |->
                 IF present[k].phrase THEN Title(present[k].source)
                 ELSE Capitalize(present[k].source)]

-----------------------------------------------------------------------------
(* ReviewAnalyzer.analyze_review_text and ReviewAnalyzer.analyze_batch     *)

\* len(text.split()): the maximal runs of non-blank characters
WordCount(s) ==
    Cardinality({k \in 1..Len(s) :
                    s[k] \notin Whitespace /\ (k = 1 \/ s[k - 1] \in Whitespace)})

\* get_default_insights, lines 214-226
get_default_insights(text) ==
    LET text_str == safe_string_conversion(text) IN
    [sentiment |-> "neutral",
     topics |-> <<>>,
     problems |-> <<>>,
     suggestions |-> {},
     numeric_rating |-> Rating(3, 1),
     character_count |-> Len(text_str),
     word_count |-> WordCount(text_str),
     analysis_success |-> FALSE]

\* analyze_review_text, lines 183-212, for the string review_text that
\* analyze_batch passes: an exception that escapes analyze_sentiment is
\* caught by the except clause of line 210; the extractors, the rating
\* parser and the two lengths raise nothing
analyze_review_text(review_text, review_data) ==
    LET sentiment_ == analyze_sentiment(PyStr(review_text)) IN
    IF sentiment_.kind = "raised" THEN get_default_insights(PyStr(review_text))
    ELSE [sentiment |-> sentiment_.label,
          topics |-> extract_topics(PyStr(review_text)),
          problems |-> extract_problems(PyStr(review_text)),
          suggestions |-> extract_suggestions(PyStr(review_text)),
          numeric_rating |->
              IF Truthy(review_data) /\ review_data.t = "dict"
              THEN extract_rating(Get(review_data, "rating", PyStr(<<>>)))
              ELSE Rating(3, 1),
          character_count |-> Len(review_text),
          word_count |-> WordCount(review_text),
          analysis_success |-> TRUE]

\* review.get('text', review.get('review', review.get('content', ''))), made
\* a string, lines 239-241
ReviewText(review) ==
    safe_string_conversion(
        Get(review, "text", Get(review, "review", Get(review, "content", PyStr(<<>>)))))

\* the row with the id always generated from the position
AnalyzeRow_generated_id(review, i) ==
    LET review_text == safe_string_conversion(
                           Get(review, "text",
                               Get(review, "review",
                                   Get(review, "content", PyStr(<<>>)))))
        insights == analyze_review_text(review_text, review)
    IN  [review_id |-> GeneratedId(i),
         date |-> safe_string_conversion(
                      Get(review, "date", Get(review, "timestamp", PyStr(<<>>)))),
         original_rating |-> safe_string_conversion(Get(review, "rating", PyStr(<<>>))),
         text |-> review_text,
         sentiment |-> insights.sentiment,
         topics |-> insights.topics,
         problems |-> insights.problems,
         suggestions |-> insights.suggestions,
         numeric_rating |-> insights.numeric_rating,
         character_count |-> insights.character_count,
         word_count |-> insights.word_count,
         analysis_success |-> insights.analysis_success]

\* the row analyze_batch builds of the mapping review at position i, lines 238-252
AnalyzeRow(review, i) ==
    LET review_text == safe_string_conversion(
                           Get(review, "text",
                               Get(review, "review",
                                   Get(review, "content", PyStr(<<>>)))))
        insights == analyze_review_text(review_text, review)
    IN  [review_id |-> safe_string_conversion(
                           Get(review, "review_id",
                               Get(review, "id", PyStr(GeneratedId(i))))),
         date |-> safe_string_conversion(
                      Get(review, "date", Get(review, "timestamp", PyStr(<<>>)))),
         original_rating |-> safe_string_conversion(Get(review, "rating", PyStr(<<>>))),
         text |-> review_text,
         sentiment |-> insights.sentiment,
         topics |-> insights.topics,
         problems |-> insights.problems,
         suggestions |-> insights.suggestions,
         numeric_rating |-> insights.numeric_rating,
         character_count |-> insights.character_count,
         word_count |-> insights.word_count,
         analysis_success |-> insights.analysis_success]

RECURSIVE AnalyzeLoop_no_skip(_, _, _)
\* the loop without the isinstance test of line 234
AnalyzeLoop_no_skip(reviews_data, k, analyzed_reviews) ==
    IF k > Len(reviews_data) THEN analyzed_reviews
    ELSE AnalyzeLoop_no_skip(reviews_data, k + 1,
                             Append(analyzed_reviews, AnalyzeRow(reviews_data[k], k - 1)))

RECURSIVE AnalyzeLoop(_, _, _)
\* for i, review in enumerate(reviews_data): skip what is not a dict, else
\* append its row (k is the 1-based position, i = k - 1)
AnalyzeLoop(reviews_data, k, analyzed_reviews) ==
    IF k > Len(reviews_data) THEN analyzed_reviews
    ELSE IF reviews_data[k].t # "dict"
    THEN AnalyzeLoop(reviews_data, k + 1, analyzed_reviews)
    ELSE AnalyzeLoop(reviews_data, k + 1,
                     Append(analyzed_reviews, AnalyzeRow(reviews_data[k], k - 1)))

\* the batch with the non-mappings analyzed too
analyze_batch_no_skip(reviews_data) == AnalyzeLoop_no_skip(reviews_data, 1, <<>>)

analyze_batch(reviews_data) == AnalyzeLoop(reviews_data, 1, <<>>)

\* the number of times analyze_batch asks the scorer: once for every mapping
\* whose text is not blank
BatchScorerCalls(reviews_data) ==
    Cardinality({k \in 1..Len(reviews_data) :
                    /\ reviews_data[k].t = "dict"
                    /\ analyze_sentiment(PyStr(ReviewText(reviews_data[k]))).asked})

-----------------------------------------------------------------------------
(* Values of the variables a specification does not use *)

NoItem   == PyNone

\* the scorers of the batches and uploads: one that raises, one that finds
\* the text positive
PipelineScorers == {ScorerRaises, Polarity(50)}

-----------------------------------------------------------------------------
(* Specification of the rating parsers: each is applied once to an input   *)
(* drawn from the strings built of at most MaxLexemes lexemes, the rating  *)
(* strings the documentation gives, small integers and None.               *)

Lexemes ==
    { <<"(">>, <<")">>, <<"0">>, <<"4">>, <<"7">>, <<FilledStar>>, <<"*">>,
      <<"/">>, <<".">>, <<" ">>, <<"s", "t", "a", "r", "s">> }

RECURSIVE LexemeStrings(_)
LexemeStrings(n) ==
    IF n = 0 THEN {<<>>}
    ELSE LET shorter == LexemeStrings(n - 1)
         IN  shorter \cup {s \o l : s \in shorter, l \in Lexemes}

\* "4/5 stars"
FourOfFiveStars == <<"4", "/", "5", " ", "s", "t", "a", "r", "s">>
\* the sample rating of the upload help (app.py), three filled stars of five
ThreeStarSample ==
    <<FilledStar, FilledStar, FilledStar, EmptyStar, EmptyStar, " ",
      "(", "3", " ", "s", "t", "a", "r", "s", ")">>
\* four filled stars of five, "(4 stars)"
FourStarSample ==
    <<FilledStar, FilledStar, FilledStar, FilledStar, EmptyStar, " ",
      "(", "4", " ", "s", "t", "a", "r", "s", ")">>
\* "(2 Stars)"
UpperCaseSample == <<"(", "2", " ", "S", "t", "a", "r", "s", ")">>

SampleRatings == {FourOfFiveStars, ThreeStarSample, FourStarSample, UpperCaseSample}

RatingInputs ==
    {PyStr(s) : s \in LexemeStrings(MaxLexemes) \cup SampleRatings}
        \cup {PyInt(n) : n \in -1..7} \cup {PyNone}

InitRating ==
    /\ pc = "rating"
    /\ rating_value \in RatingInputs
    /\ di_rating = NotCalled
    /\ ra_rating = NotCalled
    /\ raw_data = NoItem
    /\ index = 0
    /\ normalized = NotNormalized
    /\ uploaded_file = NoFile
    /\ raw_reviews = <<>>
    /\ analyzed_df = <<>>
    /\ scorer = Unscored
    /\ scorer_calls = 0
    /\ text_value = PyNone
    /\ sentiment = NotAnalyzed
    /\ problems = NotExtracted

\* a call of DataIngester.extract_rating_from_text(rating_value)
DIExtractRating ==
    /\ pc = "rating"
    /\ di_rating = NotCalled
    /\ di_rating' = extract_rating_from_text(rating_value)
    /\ UNCHANGED <<pc, rating_value, ra_rating, raw_data, index, normalized,
                   uploaded_file, raw_reviews, analyzed_df>>
    /\ UNCHANGED <<scorer, scorer_calls, text_value, sentiment, problems>>

\* a call of ReviewAnalyzer.extract_rating(rating_value)
RAExtractRating ==
    /\ pc = "rating"
    /\ ra_rating = NotCalled
    /\ ra_rating' = extract_rating(rating_value)
    /\ UNCHANGED <<pc, rating_value, di_rating, raw_data, index, normalized,
                   uploaded_file, raw_reviews, analyzed_df>>
    /\ UNCHANGED <<scorer, scorer_calls, text_value, sentiment, problems>>

NextRating == DIExtractRating \/ RAExtractRating

SpecRating == InitRating /\ [][NextRating]_vars

-----------------------------------------------------------------------------
(* Specification of the normalizer: normalize_review is applied once to a  *)
(* raw item of any shape and an index.                                     *)

AliasKeys ==
    {"review_id", "id", "date", "timestamp", "rating", "stars", "score",
     "text", "review", "content"}

LeafValues == {PyStr(<<"a">>), PyInt(4), PyNone, PyBad}

RawMappings ==
    {PyDict(f) : f \in UNION {[K -> LeafValues] :
                                K \in {K \in SUBSET AliasKeys : Cardinality(K) <= MaxKeys}}}

RawInputs ==
    RawMappings \cup {PyStr(<<"x">>), PyStr(<<>>), PyInt(4), PyNone, PyList(<<>>), PyBad}

\* enumerate() positions of one to six digits
NormalizeIndexes == {0, 12345, 123456}

InitNormalize ==
    /\ pc = "normalize"
    /\ raw_data \in RawInputs
    /\ index \in NormalizeIndexes
    /\ normalized = NotNormalized
    /\ rating_value = PyNone
    /\ di_rating = NotCalled
    /\ ra_rating = NotCalled
    /\ uploaded_file = NoFile
    /\ raw_reviews = <<>>
    /\ analyzed_df = <<>>
    /\ scorer = Unscored
    /\ scorer_calls = 0
    /\ text_value = PyNone
    /\ sentiment = NotAnalyzed
    /\ problems = NotExtracted

\* a call of DataIngester.normalize_review(raw_data, index)
NormalizeReview ==
    /\ pc = "normalize"
    /\ normalized = NotNormalized
    /\ normalized' = normalize_review(raw_data, index)
    /\ UNCHANGED <<pc, rating_value, di_rating, ra_rating, raw_data, index,
                   uploaded_file, raw_reviews, analyzed_df>>
    /\ UNCHANGED <<scorer, scorer_calls, text_value, sentiment, problems>>

NextNormalize == NormalizeReview

SpecNormalize == InitNormalize /\ [][NextNormalize]_vars

-----------------------------------------------------------------------------
(* Specification of the pipeline (app.py, process_uploaded_file): a file   *)
(* is uploaded, ingest_file reads it, analyze_batch analyzes what it       *)
(* returned.  (process_uploaded_file does not make the second call when    *)
(* the list is empty; the call is modelled for every list.)                *)

\* "R00001", the id normalize_review generates at index 1
R00001 == <<"R", "0", "0", "0", "0", "1">>

\* the JSON objects of the uploads: review_id, rating and text are each
\* absent or one of the values below; one more object rates "4/5 stars"
ObjectValues ==
    [review_id |-> {PyStr(R00001), PyInt(7)},
     rating    |-> {PyStr(FourStarSample)},
     text      |-> {PyStr(<<"x">>)}]

JsonObjects ==
    {PyDict(f) : f \in UNION {{g \in [K -> UNION {ObjectValues[k] : k \in K}] :
                                  \A k \in K : g[k] \in ObjectValues[k]} :
                              K \in SUBSET {"review_id", "rating", "text"}}}
        \cup {PyDict("rating" :> PyStr(FourOfFiveStars))}

JsonItems == JsonObjects \cup {PyStr(<<"x">>), PyInt(4), PyNone}

RECURSIVE SeqsUpTo(_, _)
\* the sequences of at most n elements of S
SeqsUpTo(S, n) ==
    IF n = 0 THEN {<<>>}
    ELSE LET shorter == SeqsUpTo(S, n - 1)
         IN  shorter \cup {Append(s, x) : s \in shorter, x \in S}

JsonDocuments ==
    {PyList(items) : items \in SeqsUpTo(JsonItems, MaxItems)}
        \cup {PyDict("reviews" :> PyList(items)) : items \in SeqsUpTo(JsonItems, MaxItems)}
        \cup JsonObjects
        \cup {PyDict("reviews" :> PyStr(<<"x">>)),
              PyDict(("reviews" :> PyInt(4)) @@ ("text" :> PyStr(<<"x">>))),
              PyStr(<<"x">>), PyInt(4), PyInt(0), PyNone}

JsonName  == <<"r", ".", "j", "s", "o", "n">>
UpperName == <<"R", ".", "J", "S", "O", "N">>
CsvName   == <<"r", ".", "c", "s", "v">>
TextName  == <<"r", ".", "t", "x", "t">>
OtherNames == {<<"r", ".", "p", "d", "f">>, <<"j", "s", "o", "n">>, <<>>}

JsonFiles ==
    {File(JsonName, TRUE, JsonOf(d), <<>>, NoCsv) : d \in JsonDocuments}
        \cup {File(UpperName, TRUE, JsonOf(PyList(<<d>>)), <<>>, NoCsv) : d \in JsonObjects}
        \cup {File(JsonName, TRUE, JsonMalformed, <<>>, NoCsv),
              File(JsonName, FALSE, JsonMalformed, <<>>, NoCsv)}

CsvReads ==
    { <<"ok", "ok", "ok", "ok", "ok">>,
      <<"UnicodeDecodeError", "ok", "ok", "ok", "ok">>,
      <<"UnicodeDecodeError", "Exception", "Exception", "Exception", "Exception">>,
      <<"Exception", "Exception", "Exception", "Exception", "Exception">> }

CsvCells == {PyInt(7), PyNaN}

CsvTables ==
    UNION {SeqsUpTo({PyDict(f) : f \in [cols -> CsvCells]}, MaxItems) :
               cols \in {{"text"}, {"review_id", "text"}}}

CsvFiles ==
    {File(CsvName, TRUE, JsonMalformed, <<>>, [reads |-> r, rows |-> rows, lossy |-> l]) :
         r \in CsvReads, rows \in CsvTables, l \in {"ok", "Exception"}}

TextFiles ==
    {File(TextName, TRUE, JsonMalformed, s, NoCsv) :
         s \in SeqsUpTo({"x", " ", "\n"}, MaxChars)}
        \cup {File(TextName, FALSE, JsonMalformed, <<>>, NoCsv)}

OtherFiles ==
    {File(n, TRUE, JsonOf(PyList(<<PyStr(<<"x">>)>>)), <<"x">>, NoCsv) : n \in OtherNames}

Files == JsonFiles \cup CsvFiles \cup TextFiles \cup OtherFiles \cup {NoFile}

Init ==
    /\ pc = "uploaded"
    /\ uploaded_file \in Files
    /\ raw_reviews = <<>>
    /\ analyzed_df = <<>>
    /\ rating_value = PyNone
    /\ di_rating = NotCalled
    /\ ra_rating = NotCalled
    /\ raw_data = NoItem
    /\ index = 0
    /\ normalized = NotNormalized
    /\ scorer \in PipelineScorers
    /\ scorer_calls = 0
    /\ text_value = PyNone
    /\ sentiment = NotAnalyzed
    /\ problems = NotExtracted

\* raw_reviews = self.ingester.ingest_file(uploaded_file)
IngestFile ==
    /\ pc = "uploaded"
    /\ raw_reviews' = ingest_file(uploaded_file)
    /\ pc' = "ingested"
    /\ UNCHANGED <<rating_value, di_rating, ra_rating, raw_data, index, normalized,
                   uploaded_file, analyzed_df>>
    /\ UNCHANGED <<scorer, scorer_calls, text_value, sentiment, problems>>

\* self.analyzed_df = self.analyzer.analyze_batch(raw_reviews)
AnalyzeBatch ==
    /\ pc = "ingested"
    /\ analyzed_df' = analyze_batch(raw_reviews)
    /\ pc' = "analyzed"
    /\ scorer_calls' = scorer_calls + BatchScorerCalls(raw_reviews)
    /\ UNCHANGED <<rating_value, di_rating, ra_rating, raw_data, index, normalized,
                   uploaded_file, raw_reviews>>
    /\ UNCHANGED <<scorer, text_value, sentiment, problems>>

Next == IngestFile \/ AnalyzeBatch

Spec == Init /\ [][Next]_vars

-----------------------------------------------------------------------------
(* Specification of the batch analyzer alone: analyze_batch is handed any  *)
(* sequence of items, mappings or not.                                     *)

BatchItems ==
    JsonObjects
        \cup {PyDict("id" :> PyStr(<<"a">>)),
              PyDict(("content" :> PyStr(<<"y", " ", "z">>)) @@ ("review_id" :> PyBad)),
              PyDict(("review" :> PyInt(4)) @@ ("timestamp" :> PyStr(<<"t">>))),
              PyDict("text" :> PyStr(<<"b", "a", "d">>)),
              PyStr(<<"x">>), PyInt(4), PyNone, PyList(<<>>)}

InitBatch ==
    /\ pc = "ingested"
    /\ raw_reviews \in SeqsUpTo(BatchItems, MaxItems)
    /\ analyzed_df = <<>>
    /\ uploaded_file = NoFile
    /\ rating_value = PyNone
    /\ di_rating = NotCalled
    /\ ra_rating = NotCalled
    /\ raw_data = NoItem
    /\ index = 0
    /\ normalized = NotNormalized
    /\ scorer \in PipelineScorers
    /\ scorer_calls = 0
    /\ text_value = PyNone
    /\ sentiment = NotAnalyzed
    /\ problems = NotExtracted

NextBatch == AnalyzeBatch

SpecBatch == InitBatch /\ [][NextBatch]_vars

-----------------------------------------------------------------------------
(* Specification SpecSentiment: one call of analyze_sentiment on a text,   *)
(* with a scorer that raises or answers a polarity.                        *)

\* polarities in hundredths: the ends of the range, the bounds of the
\* neutral band and their neighbours
Polarities == {-100, -50, -21, -20, -19, 0, 19, 20, 21, 50, 100}

Scorers == {ScorerRaises} \cup {Polarity(n) : n \in Polarities}

SentimentTexts ==
    {PyStr(t) : t \in SeqsUpTo({"x", " ", "\n"}, MaxChars)}
        \cup {PyNone, PyInt(4), PyBad}

InitSentiment ==
    /\ pc = "sentiment"
    /\ text_value \in SentimentTexts
    /\ scorer \in Scorers
    /\ scorer_calls = 0
    /\ sentiment = NotAnalyzed
    /\ problems = NotExtracted
    /\ rating_value = PyNone
    /\ di_rating = NotCalled
    /\ ra_rating = NotCalled
    /\ raw_data = NoItem
    /\ index = 0
    /\ normalized = NotNormalized
    /\ uploaded_file = NoFile
    /\ raw_reviews = <<>>
    /\ analyzed_df = <<>>

\* a call of ReviewAnalyzer.analyze_sentiment(text_value)
AnalyzeSentiment ==
    /\ pc = "sentiment"
    /\ sentiment = NotAnalyzed
    /\ sentiment' = analyze_sentiment(text_value)
    /\ scorer_calls' = scorer_calls + (IF analyze_sentiment(text_value).asked THEN 1 ELSE 0)
    /\ UNCHANGED <<pc, rating_value, di_rating, ra_rating, raw_data, index, normalized,
                   uploaded_file, raw_reviews, analyzed_df>>
    /\ UNCHANGED <<scorer, text_value, problems>>

NextSentiment == AnalyzeSentiment

SpecSentiment == InitSentiment /\ [][NextSentiment]_vars

-----------------------------------------------------------------------------
(* Specification SpecProblems: one call of extract_problems on a text.     *)
(* The texts are the short strings over a few characters and the texts     *)
(* made of sentences of a pool, each closed by '.', '!' or '?'.            *)

\* a text is made of the first MaxSentences sentences of the pool
MaxSentences == 7

SentencePool ==
    << <<"S", "l", "o", "w">>,
       <<" ", "b", "a", "d", " ", "u", "i", " ">>,
       <<"o", "k">>,
       <<"B", "u", "g">>,
       <<"n", "e", "v", "e", "r", " ", "a", "g", "a", "i", "n">>,
       <<"l", "a", "t", "e">>,
       <<"i", "t", " ", "i", "s", " ", "B", "R", "O", "K", "E", "N">>,
       <<"a", " ", "d", "e", "b", "u", "g", " ", "l", "o", "g">>,
       <<"p", "o", "o", "r">> >>

PoolSize == IF MaxSentences < Len(SentencePool) THEN MaxSentences ELSE Len(SentencePool)

SentenceEnds == <<".", "!", "?">>

RECURSIVE JoinSentences(_)
\* the text of the pool sentences numbered ks, each with its closing mark
JoinSentences(ks) ==
    IF ks = <<>> THEN <<>>
    ELSE SentencePool[Head(ks)] \o <<SentenceEnds[(Head(ks) % 3) + 1]>>
             \o JoinSentences(Tail(ks))

\* the sentences of a set in pool order, and in the opposite order
Ascending(S)  == SelectSeq([k \in 1..PoolSize |-> k], LAMBDA k : k \in S)
Descending(S) == SelectSeq([k \in 1..PoolSize |-> PoolSize + 1 - k], LAMBDA k : k \in S)

\* the selections: in order, in the opposite order, and each sentence twice
SentenceOrders ==
    UNION {{Ascending(S), Descending(S), Ascending(S) \o Descending(S)} :
               S \in SUBSET (1..PoolSize)}

ProblemTexts ==
    {PyStr(JoinSentences(ks)) : ks \in SentenceOrders}
        \cup {PyStr(t) : t \in SeqsUpTo({"b", "a", "d", "B", ".", " "}, MaxChars)}
        \cup {PyNone, PyInt(4), PyBad}

InitProblems ==
    /\ pc = "problems"
    /\ text_value \in ProblemTexts
    /\ scorer = Unscored
    /\ scorer_calls = 0
    /\ sentiment = NotAnalyzed
    /\ problems = NotExtracted
    /\ rating_value = PyNone
    /\ di_rating = NotCalled
    /\ ra_rating = NotCalled
    /\ raw_data = NoItem
    /\ index = 0
    /\ normalized = NotNormalized
    /\ uploaded_file = NoFile
    /\ raw_reviews = <<>>
    /\ analyzed_df = <<>>

\* a call of ReviewAnalyzer.extract_problems(text_value)
ExtractProblems ==
    /\ pc = "problems"
    /\ problems = NotExtracted
    /\ problems' = Returned(extract_problems(text_value))
    /\ UNCHANGED <<pc, rating_value, di_rating, ra_rating, raw_data, index, normalized,
                   uploaded_file, raw_reviews, analyzed_df>>
    /\ UNCHANGED <<scorer, scorer_calls, text_value, sentiment>>

NextProblems == ExtractProblems

SpecProblems == InitProblems /\ [][NextProblems]_vars

-----------------------------------------------------------------------------
(* Properties                                                              *)

\* the rational a rating outcome holds equals n
RatingIs(r, n) == r.kind = "value" /\ r.num = n * r.den

\* two rating outcomes hold the same number
SameRating(a, b) == a.kind = b.kind /\ a.num * b.den = b.num * a.den

\* the uploaded file is well-formed JSON that ingest_file reads as JSON
WellFormedJson(f) ==
    /\ f.present
    /\ EndsWith(Lower(f.name), <<".", "j", "s", "o", "n">>)
    /\ f.utf8
    /\ f.json.ok

(* C1: every analyzed record of an ingested file keeps the normalized      *)
(* record's raw rating text as original_rating, and its numeric_rating is  *)
(* the rating parser's result on that text.                                *)
C1_OriginalRatingIsRatingText ==
    pc = "analyzed" =>
        /\ Len(analyzed_df) = Len(raw_reviews)
        /\ \A k \in 1..Len(analyzed_df) :
              /\ analyzed_df[k].original_rating = raw_reviews[k].m["rating_text"].s
              /\ SameRating(analyzed_df[k].numeric_rating,
                            extract_rating(raw_reviews[k].m["rating_text"]))

(* C2: whatever the input, each of the two rating parsers returns a value  *)
(* between 1 and 5.                                                        *)
C2_RatingInRange ==
    \A r \in {di_rating, ra_rating} :
        r.kind = "value" => (r.den <= r.num /\ r.num <= 5 * r.den)

\* the input carries no rating signal: None, or a string without a digit,
\* a filled star or an asterisk
NoRatingSignal(v) ==
    \/ v.t = "none"
    \/ v.t = "str" /\ \A k \in 1..Len(v.s) : v.s[k] \notin Digits \cup {FilledStar, "*"}

(* C3: no exception escapes either rating parser, and an input that is     *)
(* empty, None or without any rating signal gives the default 3.           *)
C3_ParserTotalDefault3 ==
    \A r \in {di_rating, ra_rating} :
        /\ r.kind # "raised"
        /\ (r.kind = "value" /\ NoRatingSignal(rating_value)) => RatingIs(r, 3)

\* s holds at position i a parenthesized integer: "(", digits, then ")"
\* directly or after blanks and the word star or stars
ParenIntAt(s, i) ==
    /\ s[i] = "("
    /\ LET e == RunEnd(s, i + 1, Digits)
           w == RunEnd(s, e + 1, Whitespace)
       IN  /\ e >= i + 1
           /\ \/ MatchLit(s, w + 1, <<")">>)
              \/ MatchLit(s, w + 1, <<"s", "t", "a", "r", ")">>)
              \/ MatchLit(s, w + 1, <<"s", "t", "a", "r", "s", ")">>)

ParenInts(s) ==
    {DigitsToInt(SubSeq(s, i + 1, RunEnd(s, i + 1, Digits))) :
         i \in {k \in 1..Len(s) : ParenIntAt(s, k)}}

(* C4: on a rating string holding a parenthesized integer N, 1 <= N <= 5,  *)
(* each rating parser returns N, whatever stars, asterisks or digits the   *)
(* string holds elsewhere.                                                 *)
C4_ParenthesizedIntegerWins ==
    \A r \in {di_rating, ra_rating} :
        (r.kind # "none" /\ rating_value.t = "str") =>
            \A n \in ParenInts(Lower(rating_value.s)) \cap (1..5) : RatingIs(r, n)

(* C5: on a rating string without parenthesis, filled star and asterisk    *)
(* that holds a number, each rating parser returns numerator/denominator*5 *)
(* when the number is followed by /denominator, and else the number        *)
(* clamped to at most 5 (so "4/5 stars" gives 4).                          *)
C5_FractionOrClampedNumber ==
    \A r \in {di_rating, ra_rating} :
        ( /\ r.kind # "none"
          /\ rating_value.t = "str"
          /\ \A k \in 1..Len(rating_value.s) :
                 rating_value.s[k] \notin {"(", ")", FilledStar, "*"}
          /\ \E k \in 1..Len(rating_value.s) : rating_value.s[k] \in Digits )
        => LET m  == NumMatch(Lower(rating_value.s))
               nu == DecimalToRat(m.ip, m.fp)
               de == DigitsToInt(m.g2)
           IN  IF m.g2 # <<>>
               THEN de # 0 => (r.kind = "value" /\ r.num * nu.den * de = 5 * nu.num * r.den)
               ELSE IF nu.num <= 5 * nu.den
               THEN r.kind = "value" /\ r.num * nu.den = nu.num * r.den
               ELSE RatingIs(r, 5)

\* the alias chains normalize_review consults on a mapping
AliasChains ==
    { <<"review_id", "id">>, <<"date", "timestamp">>,
      <<"rating", "stars", "score">>, <<"text", "review", "content">> }

\* the first key of the chain that the mapping holds carries a value whose
\* string coercion fails
FirstPresentFails(raw, chain) ==
    \E j \in 1..Len(chain) :
        /\ chain[j] \in DOMAIN raw.m
        /\ \A h \in 1..(j - 1) : chain[h] \notin DOMAIN raw.m
        /\ raw.m[chain[j]].t = "bad"

\* normalizing raw meets a fault
Faulty(raw) ==
    \/ raw.t = "bad"
    \/ raw.t = "dict" /\ \E chain \in AliasChains : FirstPresentFails(raw, chain)

(* C6: normalize_review never raises; for any raw item and index it        *)
(* returns one record with the fields review_id, date, rating_text, text,  *)
(* raw_data and a string text; on a fault the record has the generated id  *)
(* of the index, empty date and rating_text and a text describing the      *)
(* error.                                                                  *)
C6_NormalizeTotal ==
    normalized.kind # "none" =>
        /\ normalized.kind = "returned"
        /\ normalized.rec.t = "dict"
        /\ DOMAIN normalized.rec.m = {"review_id", "date", "rating_text", "text", "raw_data"}
        /\ \A key \in {"review_id", "date", "rating_text", "text"} :
               normalized.rec.m[key].t = "str"
        /\ normalized.rec.m["raw_data"] = raw_data
        /\ Faulty(raw_data) =>
               /\ normalized.rec.m["review_id"].s = GeneratedId(index)
               /\ normalized.rec.m["date"].s = <<>>
               /\ normalized.rec.m["rating_text"].s = <<>>
               /\ MatchLit(normalized.rec.m["text"].s, 1, ErrorPrefix)

\* normalize_review has returned for a mapping one of whose consulted
\* values cannot be coerced
C6_Witness ==
    /\ normalized.kind = "returned"
    /\ raw_data.t = "dict"
    /\ Faulty(raw_data)
    /\ index = 12345

\* the positions of the mappings of a JSON array that supply a review_id
Supplying(items) ==
    {k \in 1..Len(items) : items[k].t = "dict" /\ "review_id" \in DOMAIN items[k].m}

(* C7: no two records of the list one ingest_file call returns share a     *)
(* review_id; stated for the uploads of a JSON array whose items supply    *)
(* pairwise different ids, some items supplying none.                      *)
C7_UniqueReviewIds ==
    ( /\ pc # "uploaded"
      /\ WellFormedJson(uploaded_file)
      /\ uploaded_file.json.data.t = "list"
      /\ \A a, b \in Supplying(uploaded_file.json.data.m) :
             a # b => Str(uploaded_file.json.data.m[a].m["review_id"])
                        # Str(uploaded_file.json.data.m[b].m["review_id"]) )
    => \A a, b \in 1..Len(raw_reviews) :
           a # b => raw_reviews[a].m["review_id"] # raw_reviews[b].m["review_id"]

\* the positions of the mappings of a batch
MappingPositions(items) == {k \in 1..Len(items) : items[k].t = "dict"}

\* the position of the j-th mapping of a batch
NthMapping(items, j) ==
    CHOOSE k \in MappingPositions(items) :
        Cardinality({h \in MappingPositions(items) : h <= k}) = j

(* C8: analyze_batch returns one row for each item that is a mapping and   *)
(* none for any other item, in the order of the items: the j-th row is the *)
(* row of the j-th mapping.                                                *)
C8_OneRowPerMapping ==
    pc = "analyzed" =>
        /\ Len(analyzed_df) = Cardinality(MappingPositions(raw_reviews))
        /\ Len(analyzed_df) <= Len(raw_reviews)
        /\ \A j \in 1..Len(analyzed_df) :
               analyzed_df[j] = AnalyzeRow(raw_reviews[NthMapping(raw_reviews, j)],
                                           NthMapping(raw_reviews, j) - 1)

\* a batch of a non-mapping followed by a mapping has been analyzed
C8_Witness ==
    /\ pc = "analyzed"
    /\ Len(raw_reviews) = 2
    /\ raw_reviews[1].t # "dict"
    /\ raw_reviews[2].t = "dict"
    /\ Len(analyzed_df) = 1
    /\ analyzed_df[1].review_id = R00001

\* the upload is a JSON array of objects that each carry a review_id
ArrayWithIds(f) ==
    /\ WellFormedJson(f)
    /\ f.json.data.t = "list"
    /\ Supplying(f.json.data.m) = 1..Len(f.json.data.m)

(* C9: ingesting a JSON array of N objects that each carry a review_id and *)
(* analyzing the result gives N rows whose review_id are the supplied      *)
(* values, coerced to strings, in the same order.                          *)
C9_RoundTripReviewIds ==
    (pc = "analyzed" /\ ArrayWithIds(uploaded_file)) =>
        /\ Len(analyzed_df) = Len(uploaded_file.json.data.m)
        /\ \A k \in 1..Len(analyzed_df) :
               analyzed_df[k].review_id = Str(uploaded_file.json.data.m[k].m["review_id"])

\* an array of two objects, the ids "R00001" and the number 7, has made
\* the round trip
C9_Witness ==
    /\ pc = "analyzed"
    /\ ArrayWithIds(uploaded_file)
    /\ Len(uploaded_file.json.data.m) = 2
    /\ uploaded_file.json.data.m[1].m["review_id"] = PyStr(R00001)
    /\ uploaded_file.json.data.m[2].m["review_id"] = PyInt(7)
    /\ Len(analyzed_df) = 2

\* the records of the items, each normalized with its position
RecordsOf(items) == [k \in 1..Len(items) |-> normalize_review(items[k], k - 1).rec]

(* C10: on well-formed JSON ingest_json gives, for a list, one record per  *)
(* element normalized with its position; for a mapping whose 'reviews' is  *)
(* a list, one record per element of that list; for any other mapping, the *)
(* empty one included, exactly one record, normalized at index 0.          *)
C10_JsonShapes ==
    (pc # "uploaded" /\ WellFormedJson(uploaded_file)) =>
        LET data == uploaded_file.json.data IN
        /\ data.t = "list" => raw_reviews = RecordsOf(data.m)
        /\ data.t = "dict" =>
               IF "reviews" \in DOMAIN data.m /\ data.m["reviews"].t = "list"
               THEN raw_reviews = RecordsOf(data.m["reviews"].m)
               ELSE raw_reviews = <<normalize_review(data, 0).rec>>


\* the reader ingest_file hands the file to, by the lower-cased name
Extension(f) ==
    LET filename == Lower(f.name) IN
    IF EndsWith(filename, <<".", "j", "s", "o", "n">>) THEN "json"
    ELSE IF EndsWith(filename, <<".", "c", "s", "v">>) THEN "csv"
    ELSE IF EndsWith(filename, <<".", "t", "x", "t">>) THEN "txt"
    ELSE "unsupported"

\* none of the five encodings reads the CSV
LadderFails(f) == \A k \in 1..Len(Encodings) : f.csv.reads[k] # "ok"

\* the format-error cases: an unsupported extension, malformed JSON, bytes
\* that are not UTF-8 on the JSON and text paths, a CSV no attempt reads
FormatError(f) ==
    /\ f.present
    /\ \/ Extension(f) = "unsupported"
       \/ Extension(f) = "json" /\ (~f.utf8 \/ ~f.json.ok)
       \/ Extension(f) = "txt" /\ ~f.utf8
       \/ Extension(f) = "csv" /\ LadderFails(f)

(* C11: in every format-error case ingest_file returns, and what it        *)
(* returns is the empty list: no record, partial or made up, comes out.    *)
C11_FormatErrorsGiveEmpty ==
    (pc # "uploaded" /\ FormatError(uploaded_file)) => raw_reviews = <<>>

\* a file named r.pdf whose content would read as one line of text and as
\* a JSON array has been ingested
C11_Witness ==
    /\ pc = "ingested"
    /\ Extension(uploaded_file) = "unsupported"
    /\ uploaded_file.name = <<"r", ".", "p", "d", "f">>
    /\ uploaded_file.text = <<"x">>
    /\ raw_reviews = <<>>

\* the first encoding of the ladder that reads the CSV (0 when none does)
FirstReadable(f) ==
    IF LadderFails(f) THEN 0
    ELSE CHOOSE k \in 1..Len(Encodings) :
             /\ f.csv.reads[k] = "ok"
             /\ \A j \in 1..(k - 1) : f.csv.reads[j] # "ok"

(* C12: the CSV reader tries utf-8, latin-1, iso-8859-1, cp1252 and        *)
(* windows-1252 in that order and the first that reads gives the rows;     *)
(* when all five fail and a UTF-8 read that replaces the undecodable       *)
(* characters can read the data, the ingestion gives its rows; only when   *)
(* that read fails too is the result empty.                                *)
C12_EncodingLadderThenReplace ==
    (pc # "uploaded" /\ uploaded_file.present /\ Extension(uploaded_file) = "csv") =>
        LET f == uploaded_file IN
        /\ Encodings = <<"utf-8", "latin-1", "iso-8859-1", "cp1252", "windows-1252">>
        /\ IF FirstReadable(f) # 0
           THEN /\ read_csv_with_encoding(f) =
                       Table(f.csv.rows, Encodings[FirstReadable(f)])
                /\ Len(raw_reviews) = Len(f.csv.rows)
           ELSE IF f.csv.lossy = "ok"
           THEN Len(raw_reviews) = Len(f.csv.rows)
           ELSE raw_reviews = <<>>


\* the value a chain of keys pulls from the mapping: that of the first key
\* the mapping holds, the default when it holds none
Pulled(raw, chain, default) ==
    IF \A j \in 1..Len(chain) : chain[j] \notin DOMAIN raw.m THEN default
    ELSE raw.m[chain[CHOOSE j \in 1..Len(chain) :
                         /\ chain[j] \in DOMAIN raw.m
                         /\ \A h \in 1..(j - 1) : chain[h] \notin DOMAIN raw.m]]

(* C13: for a mapping whose consulted values coerce to strings, review_id  *)
(* is the string of 'review_id', else of 'id', else the generated id of    *)
(* the index; date that of 'date', else 'timestamp', else empty;           *)
(* rating_text that of 'rating', else 'stars', else 'score', else empty;   *)
(* text that of 'text', else 'review', else 'content', else empty.  A      *)
(* later key counts only when every earlier key is absent.                 *)
C13_AliasPrecedence ==
    (normalized.kind # "none" /\ raw_data.t = "dict" /\ ~Faulty(raw_data)) =>
        /\ normalized.kind = "returned"
        /\ normalized.rec.m["review_id"] =
               PyStr(Str(Pulled(raw_data, <<"review_id", "id">>, PyStr(GeneratedId(index)))))
        /\ normalized.rec.m["date"] =
               PyStr(Str(Pulled(raw_data, <<"date", "timestamp">>, PyStr(<<>>))))
        /\ normalized.rec.m["rating_text"] =
               PyStr(Str(Pulled(raw_data, <<"rating", "stars", "score">>, PyStr(<<>>))))
        /\ normalized.rec.m["text"] =
               PyStr(Str(Pulled(raw_data, <<"text", "review", "content">>, PyStr(<<>>))))

\* a mapping with 'stars' 4 and 'score' "a" and no 'rating' has been
\* normalized at index 12345: rating_text is "4", the id is generated
C13_Witness ==
    /\ normalized.kind = "returned"
    /\ raw_data.t = "dict"
    /\ DOMAIN raw_data.m = {"stars", "score"}
    /\ raw_data.m["stars"] = PyInt(4)
    /\ raw_data.m["score"] = PyStr(<<"a">>)
    /\ index = 12345
    /\ normalized.rec.m["rating_text"] = PyStr(<<"4">>)
    /\ normalized.rec.m["review_id"] = PyStr(<<"R", "1", "2", "3", "4", "5">>)


\* the positions of the line feeds of a text, and the positions at which
\* its lines start (an empty last line starts one past the end)
LineFeeds(text)  == {k \in 1..Len(text) : text[k] = "\n"}
LineStarts(text) == {1} \cup {k + 1 : k \in LineFeeds(text)}

\* the line that starts at p: up to the next line feed or the end
LineFrom(text, p) ==
    LET later == {k \in LineFeeds(text) : k >= p}
        stop  == IF later = {} THEN Len(text)
                 ELSE (CHOOSE k \in later : \A h \in later : k <= h) - 1
    IN  SubSeq(text, p, stop)

\* the 0-based index of the line that starts at p among all lines
LineIndex(text, p) == Cardinality({k \in LineFeeds(text) : k < p})

\* the starts of the lines that are not blank
NonBlankStarts(text) == {p \in LineStarts(text) : Strip(LineFrom(text, p)) # <<>>}

\* a .txt upload whose bytes are UTF-8
ReadableText(f) == f.present /\ Extension(f) = "txt" /\ f.utf8

(* C14: ingest_text gives one record per line that is not blank, in line   *)
(* order, none for a blank line; the record's text is the trimmed line,    *)
(* date and rating_text are empty and review_id is R followed by the       *)
(* five-digit index of the line among all lines of the file, blank ones    *)
(* counted.                                                                *)
C14_OneRecordPerNonBlankLine ==
    (pc # "uploaded" /\ ReadableText(uploaded_file)) =>
        LET text == uploaded_file.text IN
        /\ Len(raw_reviews) = Cardinality(NonBlankStarts(text))
        /\ \A p \in NonBlankStarts(text) :
               raw_reviews[1 + Cardinality({q \in NonBlankStarts(text) : q < p})] =
                   Record(GeneratedId(LineIndex(text, p)), <<>>, <<>>,
                          Strip(LineFrom(text, p)), PyStr(Strip(LineFrom(text, p))))

\* a text of an empty line followed by the line " x" has been ingested:
\* one record, text "x", id R00001
C14_Witness ==
    /\ pc = "ingested"
    /\ ReadableText(uploaded_file)
    /\ uploaded_file.text = <<"\n", " ", "x">>
    /\ raw_reviews = <<Record(R00001, <<>>, <<>>, <<"x">>, PyStr(<<"x">>))>>


\* the analysis of the text of the mapping review meets a fault: the text
\* is not blank, so the scorer is asked, and the scorer raises
AnalysisFails(review) ==
    /\ Strip(ReviewText(review)) # <<>>
    /\ scorer.kind = "raises"

(* C15: analyze_batch returns, with a row for every mapping; when the      *)
(* analysis of the mapping's text fails (the sentiment scorer raises) the  *)
(* row has analysis_success false, sentiment neutral, topics, problems and *)
(* suggestions empty and numeric_rating 3; analysis_success is false in    *)
(* no other row.                                                           *)
C15_FailedAnalysisGivesDefaults ==
    pc = "analyzed" =>
        /\ Len(analyzed_df) = Cardinality(MappingPositions(raw_reviews))
        /\ \A j \in 1..Len(analyzed_df) :
               LET review == raw_reviews[NthMapping(raw_reviews, j)]
                   row    == analyzed_df[j]
               IN  /\ row.analysis_success = ~AnalysisFails(review)
                   /\ AnalysisFails(review) =>
                          /\ row.sentiment = "neutral"
                          /\ row.topics = <<>>
                          /\ row.problems = <<>>
                          /\ row.suggestions = {}
                          /\ RatingIs(row.numeric_rating, 3)

\* the places at which the pieces of re.split(r'[.!?]', text) start
SentenceMarks(text)  == {k \in 1..Len(text) : text[k] \in {".", "!", "?"}}
SentenceStarts(text) == {1} \cup {k + 1 : k \in SentenceMarks(text)}

\* the trimmed sentence that starts at p: up to the next mark or the end
SentenceFrom(text, p) ==
    LET later == {k \in SentenceMarks(text) : k >= p}
        stop  == IF later = {} THEN Len(text)
                 ELSE (CHOOSE k \in later : \A h \in later : k <= h) - 1
    IN  Strip(SubSeq(text, p, stop))

\* the starts of the non-empty sentences that hold a problem keyword
MatchingStarts(text) ==
    {p \in SentenceStarts(text) :
        /\ SentenceFrom(text, p) # <<>>
        /\ \E j \in 1..Len(problem_keywords) :
               Contains(SentenceFrom(text, p), problem_keywords[j])}

\* of these, the starts of the sentences that no earlier one equals
FirstStarts(text) ==
    {p \in MatchingStarts(text) :
        \A q \in MatchingStarts(text) :
            q < p => SentenceFrom(text, q) # SentenceFrom(text, p)}

(* C16: extract_problems returns at most 5 entries, no two equal; each is  *)
(* the capitalized form of a trimmed, non-empty sentence of the            *)
(* lower-cased text that holds a problem keyword; a sentence gives one     *)
(* entry whatever the number of its keywords; the entries are the first 5  *)
(* distinct matching sentences, in the order of first appearance.          *)
C16_FirstFiveDistinctProblems ==
    problems.kind # "none" =>
        LET out   == problems.rec
            text  == Lower(safe_string_conversion(text_value))
            first == FirstStarts(text)
            Rank(p) == 1 + Cardinality({q \in first : q < p})
        IN  /\ problems.kind = "returned"
            /\ Len(out) <= 5
            /\ \A a, b \in 1..Len(out) : a # b => out[a] # out[b]
            /\ \A a \in 1..Len(out) :
                   \E p \in MatchingStarts(text) : out[a] = Capitalize(SentenceFrom(text, p))
            /\ Len(out) = IF Cardinality(first) < 5 THEN Cardinality(first) ELSE 5
            /\ \A p \in first :
                   Rank(p) <= 5 => out[Rank(p)] = Capitalize(SentenceFrom(text, p))

\* the problems of a text of twelve matching sentences, six of them
\* distinct, one with two keywords, have been extracted: five entries,
\* "Slow" first and "Late" last
C16_Witness ==
    /\ problems.kind = "returned"
    /\ text_value.t = "str"
    /\ Cardinality(MatchingStarts(Lower(text_value.s))) = 12
    /\ Cardinality(FirstStarts(Lower(text_value.s))) = 6
    /\ Len(problems.rec) = 5
    /\ problems.rec[1] = <<"S", "l", "o", "w">>
    /\ problems.rec[4] = <<"N", "e", "v", "e", "r", " ", "a", "g", "a", "i", "n">>
    /\ problems.rec[5] = <<"L", "a", "t", "e">>

\* the text handed to analyze_sentiment is empty or blank once made a string
BlankText(text) == Strip(safe_string_conversion(text)) = <<>>

(* C17: analyze_sentiment returns; on a blank text the label is neutral    *)
(* and the scorer has not been asked; when the scorer raises the label is  *)
(* neutral; otherwise the label is positive exactly when the polarity is   *)
(* above 0.2, negative exactly when it is below -0.2 and neutral between,  *)
(* the bounds 0.2 and -0.2 included.                                       *)
C17_SentimentThresholds ==
    sentiment.kind # "none" =>
        /\ sentiment.kind = "returned"
        /\ BlankText(text_value) => sentiment.label = "neutral" /\ scorer_calls = 0
        /\ (~BlankText(text_value) /\ scorer.kind = "raises") => sentiment.label = "neutral"
        /\ (~BlankText(text_value) /\ scorer.kind = "polarity") =>
               /\ sentiment.label = "positive" <=> scorer.n > 20
               /\ sentiment.label = "negative" <=> scorer.n < -20
               /\ sentiment.label = "neutral" <=> (scorer.n >= -20 /\ scorer.n <= 20)

\* the sentiment of the text "x" has been asked of a scorer that answers
\* exactly 0.2: neutral, after one call of the scorer
C17_Witness ==
    /\ sentiment.kind = "returned"
    /\ text_value = PyStr(<<"x">>)
    /\ scorer = Polarity(20)
    /\ scorer_calls = 1
    /\ sentiment.label = "neutral"

=============================================================================
